---- MODULE Spec2Model ----
(***************************************************************************)
(* Model of skills/dlt-skill/scripts/install_packages.py: dependency       *)
(* manager detection, the interactive fallback, the package resolver and   *)
(* the installer, together with main() that composes them.                 *)
(*                                                                         *)
(* Optional[str] values are sequences of length at most one: None is <<>>  *)
(* and the string s is <<s>>.  Lines typed on standard input are sequences *)
(* of Unicode code points so that str.strip() can be computed.             *)
(***************************************************************************)
EXTENDS Integers, Sequences, FiniteSets, TLC

VARIABLES entry, files, args, stdout_encoding, tty, stdin, stdin_decoded,
          stdin_read, pc, manager, destination,
          include_workspace, extras, packages, cmd, result, called, calls,
          stdout, stderr, term, exc, exit_code

vars == <<entry, files, args, stdout_encoding, tty, stdin, stdin_decoded,
          stdin_read, pc, manager, destination,
          include_workspace, extras, packages, cmd, result, called, calls,
          stdout, stderr, term, exc, exit_code>>

\* Longest standard-input stream (in lines) given to ask_user_for_manager
\* called on its own.
MaxInputs == 3

\* Longest standard-input stream (in lines) given to a run of the script.
MaxMainInputs == 2

----------------------------------------------------------------------------
(* Values *)

None == <<>>

Some(s) == <<s>>

\* Python truthiness of an Optional[str]: None and "" are falsy.
Truthy(o) == o # None /\ o[1] # ""

sys_executable == "python"

\* Outcomes of subprocess.run(..., check=True): normal completion,
\* CalledProcessError (non-zero exit), FileNotFoundError (no executable),
\* PermissionError (the file found is not executable), and any other
\* OSError of the exec (exec format error).
Outcomes == {"ok", "nonzero", "notfound", "permission", "oserror"}

\* The exception subprocess.run raises for an outcome other than "ok".
OutcomeException(o) ==
    CASE o = "nonzero" -> "CalledProcessError"
      [] o = "notfound" -> "FileNotFoundError"
      [] o = "permission" -> "PermissionError"
      [] o = "oserror" -> "OSError"

\* Lines 27, 35, 43: except (CalledProcessError, FileNotFoundError).
ProbeCaught == {"nonzero", "notfound"}

\* Line 50: except CalledProcessError.
PipProbeCaught == {"nonzero"}

Run(c, o) == [cmd |-> c, outcome |-> o]

ManagerChoices == {"uv", "pip", "poetry", "pipenv"}

NoExit == -1

----------------------------------------------------------------------------
(* Pure functions of the program *)

\* The code points c with chr(c).isspace(), which str.strip() removes.
Whitespace == (9..13) \cup (28..32) \cup {133, 160, 5760} \cup (8192..8202)
              \cup {8232, 8233, 8239, 8287, 12288}

\* A line of standard input whose bytes do not decode in the stream's
\* encoding: the read that fetches it raises UnicodeDecodeError.
Undecodable == << -1 >>

\* Ctrl-C typed at the prompt: input() raises KeyboardInterrupt.
Interrupt == << -2 >>

\* The value of stdin when the script has no standard input at all
\* (sys.stdin is None): input() raises RuntimeError before prompting.
NoStdin == << << -3 >> >>

\* How many items of a stream one read of the text layer may fetch: at
\* least one, at most everything typed before the next Ctrl-C.
RECURSIVE ChunkLimit(_)
ChunkLimit(st) ==
    IF st = <<>> \/ Head(st) = Interrupt THEN 0 ELSE 1 + ChunkLimit(Tail(st))

\* Whether print() can encode U+2705 (lines 92, 123) on standard output.
StdoutEncodes(enc) == enc = "utf-8"

RECURSIVE lstrip(_)
lstrip(s) == IF s # <<>> /\ Head(s) \in Whitespace THEN lstrip(Tail(s)) ELSE s

RECURSIVE rstrip(_)
rstrip(s) == IF s # <<>> /\ s[Len(s)] \in Whitespace
             THEN rstrip(SubSeq(s, 1, Len(s) - 1)) ELSE s

\* str.strip() applied to the line returned by input()
strip(s) == rstrip(lstrip(s))

\* The if/elif chain of ask_user_for_manager: the manager a stripped choice
\* selects, None when the choice is rejected.  49..52 are "1".."4".
ChoiceToManager(choice) ==
    IF choice = <<49>> THEN Some("uv")
    ELSE IF choice = <<50>> THEN Some("pip")
    ELSE IF choice = <<51>> THEN Some("poetry")
    ELSE IF choice = <<52>> THEN Some("pipenv")
    ELSE None

RECURSIVE join(_, _)
join(sep, xs) == IF xs = <<>> THEN ""
                 ELSE IF Len(xs) = 1 THEN xs[1]
                 ELSE xs[1] \o sep \o join(sep, Tail(xs))

\* Mutation: the destination "duckdb" is not skipped.
BuildExtras_KeepDuckdb(dest, ws) ==
    (IF Truthy(dest) THEN <<dest[1]>> ELSE <<>>)
    \o (IF ws THEN <<"workspace">> ELSE <<>>)

\* Mutation: the workspace extra is appended before the destination.
BuildExtras_WorkspaceFirst(dest, ws) ==
    (IF ws THEN <<"workspace">> ELSE <<>>)
    \o (IF Truthy(dest) /\ dest # Some("duckdb") THEN <<dest[1]>> ELSE <<>>)

\* Lines 141-149: the extras list built by get_required_packages before it
\* is joined.
BuildExtras(dest, ws) ==
    (IF Truthy(dest) /\ dest # Some("duckdb") THEN <<dest[1]>> ELSE <<>>)
    \o (IF ws THEN <<"workspace">> ELSE <<>>)

\* Lines 152-155: the single package string for an extras list.
RenderPackages(ex) ==
    IF ex # <<>> THEN << "dlt[" \o join(",", ex) \o "]" >>
    ELSE << "dlt" >>

get_required_packages(dest, ws) == RenderPackages(BuildExtras(dest, ws))

\* Mutation: pyproject.toml does not count as a uv marker.
UvMarker_LockOnly(f) == f.uv_lock

\* Marker tests of detect_dependency_manager over the working directory.
\* files.pyproject is "absent", "plain" (no "tool.poetry" in its text),
\* "poetry" (its text contains "tool.poetry"), or a path that exists but
\* cannot be read as text: "directory", "undecodable" (bytes that are not
\* UTF-8) or "unreadable" (no read permission).
UvMarker(f) == f.uv_lock \/ f.pyproject # "absent"

\* The exception Path(...).exists() raises (lines 23, 31, 39, 88), None if
\* it yields a boolean: in a working directory the user may not search,
\* the stat fails with PermissionError, which exists() does not swallow.
ExistsError(f) == IF f.searchable THEN None ELSE Some("PermissionError")

\* The exception Path("pyproject.toml").read_text() raises, None if it
\* returns the text.
ReadTextError(f) ==
    CASE f.pyproject = "directory" -> Some("IsADirectoryError")
      [] f.pyproject = "undecodable" -> Some("UnicodeDecodeError")
      [] f.pyproject = "unreadable" -> Some("PermissionError")
      [] OTHER -> None

\* Line 31: the exception the poetry marker test raises, None if it
\* yields a boolean.  The file is read only when poetry.lock is missing
\* and pyproject.toml exists.
PoetryMarkerError(f) ==
    IF ExistsError(f) # None THEN ExistsError(f)
    ELSE IF ~f.poetry_lock /\ f.pyproject # "absent" THEN ReadTextError(f)
    ELSE None

PoetryMarker(f) == f.poetry_lock \/ (f.pyproject # "absent" /\ f.pyproject = "poetry")

PipenvMarker(f) == f.Pipfile

\* Mutation: an unrecognised manager falls back to pip.
BuildCmd_DefaultPip(m, pkgs) ==
    IF m = Some("uv") THEN Some(<<"uv", "add">> \o pkgs)
    ELSE IF m = Some("poetry") THEN Some(<<"poetry", "add">> \o pkgs)
    ELSE IF m = Some("pipenv") THEN Some(<<"pipenv", "install">> \o pkgs)
    ELSE Some(<<sys_executable, "-m", "pip", "install">> \o pkgs)

\* The command vector install_packages builds for a manager, None when the
\* manager is not recognised (the ValueError branch).  m is the
\* Optional[str] held by the caller.
BuildCmd(m, pkgs) ==
    IF m = Some("uv") THEN Some(<<"uv", "add">> \o pkgs)
    ELSE IF m = Some("pip") THEN Some(<<sys_executable, "-m", "pip", "install">> \o pkgs)
    ELSE IF m = Some("poetry") THEN Some(<<"poetry", "add">> \o pkgs)
    ELSE IF m = Some("pipenv") THEN Some(<<"pipenv", "install">> \o pkgs)
    ELSE None

\* Mutation: --manager is ignored.
ManagerSpecified_Never(a) == FALSE

\* main's test of args.manager (argparse default None).

ManagerSpecified(a) == Truthy(a.manager)

----------------------------------------------------------------------------
(* Control: leaving a function, raising, exiting *)

Goto(l) == pc' = l /\ UNCHANGED <<term, exc, exit_code>>

\* An uncaught exception ends the interpreter when the script is what is
\* running (entry = "main"): with status 1, or by SIGINT (status 130 in
\* the shell) for KeyboardInterrupt.
Raise(e) ==
    /\ pc' = "done"
    /\ term' = "raised"
    /\ exc' = e
    /\ exit_code' = IF entry # "main" THEN NoExit
                    ELSE IF e = "KeyboardInterrupt" THEN 130 ELSE 1

SysExit(code) ==
    /\ pc' = "done"
    /\ term' = "sys_exit"
    /\ exc' = "SystemExit"
    /\ exit_code' = code

\* Function f returns v: to its continuation in main, or to the caller
\* that invoked it directly.
ReturnFrom(f, v, cont) ==
    /\ result' = (f :> v) @@ result
    /\ IF entry = f
       THEN /\ pc' = "done"
            /\ term' = "returned"
            /\ UNCHANGED <<exc, exit_code>>
       ELSE Goto(cont)

----------------------------------------------------------------------------
(* detect_dependency_manager *)

DetectUv ==
    /\ pc = "detect_uv"
    /\ IF ExistsError(files) # None
       THEN /\ Raise(ExistsError(files)[1])
            /\ UNCHANGED <<calls, result>>
       ELSE IF UvMarker(files)
       THEN \E o \in Outcomes :
              /\ calls' = Append(calls, Run(<<"uv", "--version">>, o))
              /\ IF o = "ok"
                 THEN ReturnFrom("detect_dependency_manager", Some("uv"), "main_detected")
                 ELSE IF o \in ProbeCaught
                 THEN Goto("detect_poetry") /\ UNCHANGED result
                 ELSE Raise(OutcomeException(o)) /\ UNCHANGED result
       ELSE /\ Goto("detect_poetry")
            /\ UNCHANGED <<calls, result>>
    /\ UNCHANGED <<entry, files, args, stdout_encoding, tty, stdin_decoded, extras, stdin, stdin_read, manager, destination,
                   include_workspace, packages, cmd, called, stdout, stderr>>

DetectPoetry ==
    /\ pc = "detect_poetry"
    /\ IF PoetryMarkerError(files) # None
       THEN /\ Raise(PoetryMarkerError(files)[1])
            /\ UNCHANGED <<calls, result>>
       ELSE IF PoetryMarker(files)
       THEN \E o \in Outcomes :
              /\ calls' = Append(calls, Run(<<"poetry", "--version">>, o))
              /\ IF o = "ok"
                 THEN ReturnFrom("detect_dependency_manager", Some("poetry"), "main_detected")
                 ELSE IF o \in ProbeCaught
                 THEN Goto("detect_pipenv") /\ UNCHANGED result
                 ELSE Raise(OutcomeException(o)) /\ UNCHANGED result
       ELSE /\ Goto("detect_pipenv")
            /\ UNCHANGED <<calls, result>>
    /\ UNCHANGED <<entry, files, args, stdout_encoding, tty, stdin_decoded, extras, stdin, stdin_read, manager, destination,
                   include_workspace, packages, cmd, called, stdout, stderr>>

DetectPipenv ==
    /\ pc = "detect_pipenv"
    /\ IF ExistsError(files) # None
       THEN /\ Raise(ExistsError(files)[1])
            /\ UNCHANGED <<calls, result>>
       ELSE IF PipenvMarker(files)
       THEN \E o \in Outcomes :
              /\ calls' = Append(calls, Run(<<"pipenv", "--version">>, o))
              /\ IF o = "ok"
                 THEN ReturnFrom("detect_dependency_manager", Some("pipenv"), "main_detected")
                 ELSE IF o \in ProbeCaught
                 THEN Goto("detect_pip") /\ UNCHANGED result
                 ELSE Raise(OutcomeException(o)) /\ UNCHANGED result
       ELSE /\ Goto("detect_pip")
            /\ UNCHANGED <<calls, result>>
    /\ UNCHANGED <<entry, files, args, stdout_encoding, tty, stdin_decoded, extras, stdin, stdin_read, manager, destination,
                   include_workspace, packages, cmd, called, stdout, stderr>>

\* The pip probe catches CalledProcessError only; every other exception
\* leaves the function.
DetectPip ==
    /\ pc = "detect_pip"
    /\ \E o \in Outcomes :
         /\ calls' = Append(calls, Run(<<sys_executable, "-m", "pip", "--version">>, o))
         /\ IF o = "ok"
            THEN ReturnFrom("detect_dependency_manager", Some("pip"), "main_detected")
            ELSE IF o \in PipProbeCaught
            THEN ReturnFrom("detect_dependency_manager", None, "main_detected")
            ELSE Raise(OutcomeException(o)) /\ UNCHANGED result
    /\ UNCHANGED <<entry, files, args, stdout_encoding, tty, stdin_decoded, extras, stdin, stdin_read, manager, destination,
                   include_workspace, packages, cmd, called, stdout, stderr>>

----------------------------------------------------------------------------
(* ask_user_for_manager *)

\* Lines 63-67: the menu is printed once, before the loop.
AskMenu ==
    /\ pc = "ask_user_for_manager"
    /\ stdout' = Append(stdout, "menu")
    /\ Goto("ask_input")
    /\ UNCHANGED <<entry, files, args, stdout_encoding, tty, stdin_decoded, extras, stdin, stdin_read, manager, destination,
                   include_workspace, packages, cmd, result, called, calls, stderr>>

\* Where input() writes its prompt: to sys.stdout, or to stderr when
\* stdin and stdout are both terminals (tty), where the interpreter reads
\* the line itself.
PromptOut == IF tty THEN stdout ELSE Append(stdout, "prompt")

PromptErr == IF tty THEN Append(stderr, "prompt") ELSE stderr

\* The line input() hands back is compared, after strip(), with the four
\* tokens (lines 70-80).  rest is what is left of the stream and buffered
\* the number of its leading lines already decoded.
AskChoice(line, rest, buffered) ==
    LET m == ChoiceToManager(strip(line))
    IN  /\ stdin' = rest
        /\ stdin_decoded' = buffered
        /\ stdin_read' = Append(stdin_read, line)
        /\ stderr' = PromptErr
        /\ IF m # None
           THEN /\ stdout' = PromptOut
                /\ ReturnFrom("ask_user_for_manager", m[1], "main_asked")
           ELSE /\ stdout' = Append(PromptOut, "invalid")
                /\ Goto("ask_input")
                /\ UNCHANGED result

\* One iteration of the while True loop.  input() raises RuntimeError when
\* there is no standard input; otherwise it writes the prompt and raises
\* EOFError when the stream is exhausted and KeyboardInterrupt on Ctrl-C.
\* On a terminal each line is decoded on its own; otherwise, when no
\* decoded line is buffered, the text layer reads a chunk of whatever has
\* arrived.  Bytes that do not decode raise UnicodeDecodeError.
AskInput ==
    /\ pc = "ask_input"
    /\ IF stdin = NoStdin
       THEN /\ Raise("RuntimeError")
            /\ UNCHANGED <<stdin, stdin_decoded, stdin_read, result,
                           stdout, stderr>>
       ELSE IF stdin = <<>>
       THEN /\ stdout' = PromptOut
            /\ stderr' = PromptErr
            /\ Raise("EOFError")
            /\ UNCHANGED <<stdin, stdin_decoded, stdin_read, result>>
       ELSE IF stdin_decoded > 0
       THEN AskChoice(Head(stdin), Tail(stdin), stdin_decoded - 1)
       ELSE IF Head(stdin) = Interrupt
       THEN /\ stdout' = PromptOut
            /\ stderr' = PromptErr
            /\ stdin' = Tail(stdin)
            /\ Raise("KeyboardInterrupt")
            /\ UNCHANGED <<stdin_decoded, stdin_read, result>>
       ELSE \E n \in (IF tty THEN {1} ELSE 1..ChunkLimit(stdin)) :
              IF \E k \in 1..n : stdin[k] = Undecodable
              THEN /\ stdout' = PromptOut
                   /\ stderr' = PromptErr
                   /\ stdin' = SubSeq(stdin, n + 1, Len(stdin))
                   /\ Raise("UnicodeDecodeError")
                   /\ UNCHANGED <<stdin_decoded, stdin_read, result>>
              ELSE AskChoice(Head(stdin), Tail(stdin), n - 1)
    /\ UNCHANGED <<entry, files, args, stdout_encoding, tty, extras, manager,
                   destination, include_workspace, packages, cmd, called,
                   calls>>

----------------------------------------------------------------------------
(* get_required_packages *)

\* Lines 141-155: extras is the local list, the return value its rendering.
GetRequiredPackages ==
    /\ pc = "get_required_packages"
    /\ extras' = BuildExtras(destination, include_workspace)
    /\ ReturnFrom("get_required_packages",
                  get_required_packages(destination, include_workspace),
                  "main_install")
    /\ UNCHANGED <<entry, files, args, stdout_encoding, tty, stdin_decoded, stdin, stdin_read, manager, destination,
                   include_workspace, packages, cmd, called, calls, stdout, stderr>>

----------------------------------------------------------------------------
(* install_packages and ensure_uv_project_initialized *)

\* Lines 106-119: the dispatch on manager.  For uv the command is built
\* after ensure_uv_project_initialized returns.
InstallPackages ==
    /\ pc = "install_packages"
    /\ stdout' = Append(stdout, "installing")
    /\ IF manager = Some("uv")
       THEN /\ called' = called \cup {"ensure_uv_project_initialized"}
            /\ Goto("ensure_uv_project_initialized")
            /\ UNCHANGED cmd
       ELSE IF BuildCmd(manager, packages) # None
       THEN /\ cmd' = BuildCmd(manager, packages)[1]
            /\ Goto("run_install")
            /\ UNCHANGED called
       ELSE /\ Raise("ValueError")
            /\ UNCHANGED <<cmd, called>>
    /\ UNCHANGED <<entry, files, args, stdout_encoding, tty, stdin_decoded, extras, stdin, stdin_read, manager, destination,
                   include_workspace, packages, result, calls, stderr>>

\* Mutation: a failed 'uv init' is reported but the installer carries on.
EnsureUv_Continue ==
    /\ pc = "ensure_uv_project_initialized"
    /\ IF ExistsError(files) # None
       THEN /\ Raise(ExistsError(files)[1])
            /\ UNCHANGED <<calls, stdout, stderr, cmd>>
       ELSE IF files.pyproject = "absent"
       THEN \E o \in Outcomes :
              /\ calls' = Append(calls, Run(<<"uv", "init">>, o))
              /\ IF o = "ok" /\ ~StdoutEncodes(stdout_encoding)
                 THEN /\ stdout' = Append(stdout, "init")
                      /\ Raise("UnicodeEncodeError")
                      /\ UNCHANGED <<cmd, stderr>>
                 ELSE /\ stdout' = IF o = "ok" THEN stdout \o <<"init", "initialized">>
                                   ELSE Append(stdout, "init")
                      /\ stderr' = IF o = "ok" THEN stderr
                                   ELSE Append(stderr, "Failed to initialize project")
                      /\ cmd' = BuildCmd(manager, packages)[1]
                      /\ Goto("run_install")
       ELSE /\ cmd' = BuildCmd(manager, packages)[1]
            /\ Goto("run_install")
            /\ UNCHANGED <<calls, stdout, stderr>>
    /\ UNCHANGED <<entry, files, args, stdout_encoding, tty, stdin_decoded, extras, stdin, stdin_read, manager, destination,
                   include_workspace, packages, result, called>>

\* Lines 88-95 and line 111.  Only CalledProcessError is caught (line 93);
\* the print of line 92 is inside the try and may raise UnicodeEncodeError.
EnsureUv ==
    /\ pc = "ensure_uv_project_initialized"
    /\ IF ExistsError(files) # None
       THEN /\ Raise(ExistsError(files)[1])
            /\ UNCHANGED <<calls, stdout, stderr, cmd>>
       ELSE IF files.pyproject = "absent"
       THEN \E o \in Outcomes :
              /\ calls' = Append(calls, Run(<<"uv", "init">>, o))
              /\ CASE o = "ok" /\ StdoutEncodes(stdout_encoding) ->
                        /\ stdout' = stdout \o <<"init", "initialized">>
                        /\ cmd' = BuildCmd(manager, packages)[1]
                        /\ Goto("run_install")
                        /\ UNCHANGED stderr
                   [] o = "ok" /\ ~StdoutEncodes(stdout_encoding) ->
                        /\ stdout' = Append(stdout, "init")
                        /\ Raise("UnicodeEncodeError")
                        /\ UNCHANGED <<cmd, stderr>>
                   [] o = "nonzero" ->
                        /\ stdout' = Append(stdout, "init")
                        /\ stderr' = Append(stderr, "Failed to initialize project")
                        /\ SysExit(1)
                        /\ UNCHANGED cmd
                   [] OTHER ->
                        /\ stdout' = Append(stdout, "init")
                        /\ Raise(OutcomeException(o))
                        /\ UNCHANGED <<cmd, stderr>>
       ELSE /\ cmd' = BuildCmd(manager, packages)[1]
            /\ Goto("run_install")
            /\ UNCHANGED <<calls, stdout, stderr>>
    /\ UNCHANGED <<entry, files, args, stdout_encoding, tty, stdin_decoded, extras, stdin, stdin_read, manager, destination,
                   include_workspace, packages, result, called>>

\* Lines 121-126.  Only CalledProcessError is caught (line 124); the print
\* of line 123 is inside the try and may raise UnicodeEncodeError.
RunInstall ==
    /\ pc = "run_install"
    /\ \E o \in Outcomes :
         /\ calls' = Append(calls, Run(cmd, o))
         /\ CASE o = "ok" /\ StdoutEncodes(stdout_encoding) ->
                   /\ stdout' = Append(stdout, "installed")
                   /\ ReturnFrom("install_packages", None, "main_end")
                   /\ UNCHANGED stderr
              [] o = "ok" /\ ~StdoutEncodes(stdout_encoding) ->
                   /\ Raise("UnicodeEncodeError")
                   /\ UNCHANGED <<stdout, stderr, result>>
              [] o = "nonzero" ->
                   /\ stderr' = Append(stderr, "Failed to install packages")
                   /\ SysExit(1)
                   /\ UNCHANGED <<stdout, result>>
              [] OTHER ->
                   /\ Raise(OutcomeException(o))
                   /\ UNCHANGED <<stdout, stderr, result>>
    /\ UNCHANGED <<entry, files, args, stdout_encoding, tty, stdin_decoded, extras, stdin, stdin_read, manager, destination,
                   include_workspace, packages, cmd, called>>

----------------------------------------------------------------------------
(* main *)

\* Lines 162-182: parse_args() prints the help and exits with status 0
\* for --help, reports a usage error on stderr and exits with status 2
\* for a --manager outside its choices or an unrecognised argument.
ParseArgs ==
    /\ pc = "parse_args"
    /\ IF args.help
       THEN /\ stdout' = Append(stdout, "help")
            /\ SysExit(0)
            /\ UNCHANGED stderr
       ELSE IF args.unrecognized
                 \/ args.manager \notin {None} \cup {Some(m) : m \in ManagerChoices}
       THEN /\ stderr' = Append(stderr, "usage error")
            /\ SysExit(2)
            /\ UNCHANGED stdout
       ELSE /\ Goto("main")
            /\ UNCHANGED <<stdout, stderr>>
    /\ UNCHANGED <<entry, files, args, stdout_encoding, tty, stdin_decoded, extras, stdin,
                   stdin_read, manager, destination, include_workspace, packages,
                   cmd, result, called, calls>>

\* Lines 185-189.
Main ==
    /\ pc = "main"
    /\ IF ManagerSpecified(args)
       THEN /\ manager' = args.manager
            /\ stdout' = Append(stdout, "using")
            /\ Goto("main_resolve")
            /\ UNCHANGED called
       ELSE /\ called' = called \cup {"detect_dependency_manager"}
            /\ Goto("detect_uv")
            /\ UNCHANGED <<manager, stdout>>
    /\ UNCHANGED <<entry, files, args, stdout_encoding, tty, stdin_decoded, extras, stdin, stdin_read, destination,
                   include_workspace, packages, cmd, result, calls, stderr>>

\* Lines 189-193, once detect_dependency_manager has returned.
MainDetected ==
    /\ pc = "main_detected"
    /\ manager' = result["detect_dependency_manager"]
    /\ IF Truthy(result["detect_dependency_manager"])
       THEN /\ stdout' = Append(stdout, "detected")
            /\ Goto("main_resolve")
            /\ UNCHANGED called
       ELSE /\ called' = called \cup {"ask_user_for_manager"}
            /\ Goto("ask_user_for_manager")
            /\ UNCHANGED stdout
    /\ UNCHANGED <<entry, files, args, stdout_encoding, tty, stdin_decoded, extras, stdin, stdin_read, destination,
                   include_workspace, packages, cmd, result, calls, stderr>>

\* Line 193: the assignment of ask_user_for_manager's return value.
MainAsked ==
    /\ pc = "main_asked"
    /\ manager' = Some(result["ask_user_for_manager"])
    /\ Goto("main_resolve")
    /\ UNCHANGED <<entry, files, args, stdout_encoding, tty, stdin_decoded, extras, stdin, stdin_read, destination,
                   include_workspace, packages, cmd, result, called, calls,
                   stdout, stderr>>

\* Lines 196-199: the call of get_required_packages.
MainResolve ==
    /\ pc = "main_resolve"
    /\ destination' = args.destination
    /\ include_workspace' = ~args.no_workspace
    /\ called' = called \cup {"get_required_packages"}
    /\ Goto("get_required_packages")
    /\ UNCHANGED <<entry, files, args, stdout_encoding, tty, stdin_decoded, extras, stdin, stdin_read, manager, packages, cmd,
                   result, calls, stdout, stderr>>

\* Lines 196 and 202: packages is bound and install_packages is called.
MainInstall ==
    /\ pc = "main_install"
    /\ packages' = result["get_required_packages"]
    /\ called' = called \cup {"install_packages"}
    /\ Goto("install_packages")
    /\ UNCHANGED <<entry, files, args, stdout_encoding, tty, stdin_decoded, extras, stdin, stdin_read, manager, destination,
                   include_workspace, cmd, result, calls, stdout, stderr>>

\* main returns and the script ends with status 0.
MainEnd ==
    /\ pc = "main_end"
    /\ pc' = "done"
    /\ term' = "returned"
    /\ exit_code' = 0
    /\ UNCHANGED <<entry, files, args, stdout_encoding, tty, stdin_decoded, extras, stdin, stdin_read, manager, destination,
                   include_workspace, packages, cmd, result, called, calls,
                   stdout, stderr, exc>>

----------------------------------------------------------------------------
(* Inputs and initial states *)

RECURSIVE SeqsUpTo(_, _)
SeqsUpTo(S, n) ==
    IF n = 0 THEN {<<>>}
    ELSE LET shorter == SeqsUpTo(S, n - 1)
         IN  shorter \cup {Append(q, x) : q \in shorter, x \in S}

NoFiles == [searchable |-> TRUE, uv_lock |-> FALSE, pyproject |-> "absent",
            poetry_lock |-> FALSE, Pipfile |-> FALSE]

\* A working directory the user may not search: nothing in it can be
\* examined, so the entries are left at their defaults.
Unsearchable == [NoFiles EXCEPT !.searchable = FALSE]

Files == [searchable : {TRUE}, uv_lock : BOOLEAN,
          pyproject : {"absent", "plain", "poetry",
                       "directory", "undecodable", "unreadable"},
          poetry_lock : BOOLEAN, Pipfile : BOOLEAN]
         \cup {Unsearchable}

NoArgs == [manager |-> None, destination |-> None, no_workspace |-> FALSE,
           help |-> FALSE, unrecognized |-> FALSE]

\* Command lines: those argparse accepts, and --help, a --manager outside
\* the choices, and an unrecognised option.
Args == [manager : {None} \cup {Some(m) : m \in ManagerChoices},
         destination : {None, Some("duckdb"), Some("bigquery")},
         no_workspace : BOOLEAN, help : {FALSE}, unrecognized : {FALSE}]
        \cup { [NoArgs EXCEPT !.help = TRUE],
               [NoArgs EXCEPT !.manager = Some("conda")],
               [NoArgs EXCEPT !.unrecognized = TRUE] }

StdoutEncodings == {"utf-8", "ascii"}

\* What a run of the script may find on standard input: "1 ", "7", an
\* undecodable line and a Ctrl-C.
MainLines == { <<49, 32>>, <<55>>, Undecodable, Interrupt }

\* Standard input of a run: a stream of such lines, or none at all.
MainStreams == SeqsUpTo(MainLines, MaxMainInputs) \cup {NoStdin}

\* Lines given to ask_user_for_manager when it is exercised on its own:
\* "1\r", " 2 ", "\x0b3\xa0", "\t4", "", "5", "12", "1 2" and "4" followed
\* by U+200B (zero width space, not whitespace), an undecodable line and
\* a Ctrl-C.
AskLines == { <<49, 13>>, <<32, 50, 32>>, <<11, 51, 160>>, <<9, 52>>,
              <<>>, <<53>>, <<49, 50>>, <<49, 32, 50>>, <<52, 8203>>,
              Undecodable, Interrupt }

\* Arguments of direct calls.
Destinations == {None, Some(""), Some("duckdb"), Some("workspace"),
                 Some("bigquery"), Some("snowflake"), Some("DuckDB")}

ManagerValues == {None} \cup {Some(m) : m \in ManagerChoices \cup {"conda", "", "UV"}}

PackageLists == { <<"dlt">>, <<"dlt[bigquery,workspace]">> }

Fresh ==
    /\ stdin_read = <<>>
    /\ stdin_decoded = 0
    /\ extras = <<>>
    /\ cmd = <<>>
    /\ result = <<>>
    /\ calls = <<>>
    /\ stdout = <<>>
    /\ stderr = <<>>
    /\ term = "running"
    /\ exc = ""
    /\ exit_code = NoExit

\* One run of the script.
Init ==
    /\ entry = "main"
    /\ pc = "parse_args"
    /\ files \in Files
    /\ args \in Args
    /\ stdout_encoding \in StdoutEncodings
    /\ stdin \in MainStreams
    /\ tty \in (IF stdin = NoStdin THEN {FALSE} ELSE BOOLEAN)
    /\ manager = None
    /\ destination = None
    /\ include_workspace = TRUE
    /\ packages = <<>>
    /\ called = {"main"}
    /\ Fresh

InitDetect ==
    /\ entry = "detect_dependency_manager"
    /\ stdout_encoding = "utf-8"
    /\ pc = "detect_uv"
    /\ files \in Files
    /\ args = NoArgs
    /\ stdin = <<>>
    /\ tty = FALSE
    /\ manager = None
    /\ destination = None
    /\ include_workspace = TRUE
    /\ packages = <<>>
    /\ called = {"detect_dependency_manager"}
    /\ Fresh

InitAsk ==
    /\ entry = "ask_user_for_manager"
    /\ pc = "ask_user_for_manager"
    /\ files = NoFiles
    /\ args = NoArgs
    /\ stdin \in SeqsUpTo(AskLines, MaxInputs) \cup {NoStdin}
    /\ tty \in (IF stdin = NoStdin THEN {FALSE} ELSE BOOLEAN)
    /\ stdout_encoding = "utf-8"
    /\ manager = None
    /\ destination = None
    /\ include_workspace = TRUE
    /\ packages = <<>>
    /\ called = {"ask_user_for_manager"}
    /\ Fresh

InitResolve ==
    /\ entry = "get_required_packages"
    /\ stdout_encoding = "utf-8"
    /\ pc = "get_required_packages"
    /\ files = NoFiles
    /\ args = NoArgs
    /\ stdin = <<>>
    /\ tty = FALSE
    /\ manager = None
    /\ destination \in Destinations
    /\ include_workspace \in BOOLEAN
    /\ packages = <<>>
    /\ called = {"get_required_packages"}
    /\ Fresh

InitInstall ==
    /\ entry = "install_packages"
    /\ stdout_encoding \in StdoutEncodings
    /\ pc = "install_packages"
    /\ files \in Files
    /\ args = NoArgs
    /\ stdin = <<>>
    /\ tty = FALSE
    /\ manager \in ManagerValues
    /\ destination = None
    /\ include_workspace = TRUE
    /\ packages \in PackageLists
    /\ called = {"install_packages"}
    /\ Fresh

\* Each function called on its own, with arguments of its parameter types.
InitCall == InitDetect \/ InitAsk \/ InitResolve \/ InitInstall

Next ==
    \/ ParseArgs
    \/ Main
    \/ DetectUv
    \/ DetectPoetry
    \/ DetectPipenv
    \/ DetectPip
    \/ MainDetected
    \/ AskMenu
    \/ AskInput
    \/ MainAsked
    \/ MainResolve
    \/ GetRequiredPackages
    \/ MainInstall
    \/ InstallPackages
    \/ EnsureUv
    \/ RunInstall
    \/ MainEnd

NextCall ==
    \/ DetectUv
    \/ DetectPoetry
    \/ DetectPipenv
    \/ DetectPip
    \/ AskMenu
    \/ AskInput
    \/ GetRequiredPackages
    \/ InstallPackages
    \/ EnsureUv
    \/ RunInstall

Spec == Init /\ [][Next]_vars

SpecCall == InitCall /\ [][NextCall]_vars

\* Every step of a call is taken eventually: the program is sequential
\* and each statement runs once control reaches it.
FairSpecCall == SpecCall /\ WF_vars(NextCall)

TypeOK ==
    /\ pc \in {"parse_args", "main", "detect_uv", "detect_poetry", "detect_pipenv", "detect_pip",
               "main_detected", "ask_user_for_manager", "ask_input", "main_asked",
               "main_resolve", "get_required_packages", "main_install",
               "install_packages", "ensure_uv_project_initialized", "run_install",
               "main_end", "done"}
    /\ term \in {"running", "returned", "sys_exit", "raised"}
    /\ exit_code \in {NoExit, 0, 1, 2, 130}
    /\ tty \in BOOLEAN
    /\ stdin_decoded \in 0..Len(stdin)
    /\ (pc = "done") = (term # "running")

----------------------------------------------------------------------------
(* Properties: get_required_packages *)

ResolveDone == entry = "get_required_packages" /\ pc = "done"

NoDuplicates(xs) == \A i, j \in 1..Len(xs) : i # j => xs[i] # xs[j]

\* C1 as stated: for every destination string other than "duckdb", the
\* empty string included, get_required_packages(destination, True)
\* returns ["dlt[<destination>,workspace]"].
C1_AnyDestination ==
    (ResolveDone /\ include_workspace /\ destination # None
        /\ destination # Some("duckdb"))
    => result["get_required_packages"]
         = << "dlt[" \o destination[1] \o ",workspace]" >>

\* C1 amended: for every non-empty destination string other than "duckdb"
\* (the string "workspace" included), get_required_packages(destination,
\* True) returns exactly ["dlt[<destination>,workspace]"]; for the empty
\* string it returns ["dlt[workspace]"].
C1_NonEmptyDestination ==
    (ResolveDone /\ include_workspace /\ destination # None
        /\ destination # Some("duckdb"))
    => result["get_required_packages"]
         = IF destination[1] # ""
           THEN << "dlt[" \o destination[1] \o ",workspace]" >>
           ELSE << "dlt[workspace]" >>

C1_Witness ==
    /\ ResolveDone
    /\ include_workspace
    /\ destination = Some("bigquery")
    /\ result["get_required_packages"] = << "dlt[bigquery,workspace]" >>

\* C2: the extras list rendered in the returned package spec contains no
\* extra twice, and when a destination extra and the workspace extra are
\* both present the destination extra comes first.
C2_NoDuplicateExtras ==
    ResolveDone =>
        /\ result["get_required_packages"] = RenderPackages(extras)
        /\ NoDuplicates(extras)
        /\ (Len(extras) = 2 => extras = <<destination[1], "workspace">>)

\* C3: "duckdb" is never an explicit extra: get_required_packages("duckdb",
\* w) equals get_required_packages(None, w), which is ["dlt[workspace]"]
\* when w is true and ["dlt"] when it is false.
C3_DuckdbAsNone ==
    (ResolveDone /\ destination \in {None, Some("duckdb")})
    => /\ result["get_required_packages"]
            = IF include_workspace THEN << "dlt[workspace]" >> ELSE << "dlt" >>
       /\ "duckdb" \notin {extras[i] : i \in 1..Len(extras)}

C3_Witness ==
    /\ ResolveDone
    /\ destination = Some("duckdb")
    /\ include_workspace
    /\ result["get_required_packages"] = << "dlt[workspace]" >>

----------------------------------------------------------------------------
(* Properties: detect_dependency_manager *)

DetectCall == entry = "detect_dependency_manager"

CandidateOrder == <<"uv", "poetry", "pipenv", "pip">>

ProbeCmd(c) == IF c = "pip" THEN <<sys_executable, "-m", "pip", "--version">>
               ELSE <<c, "--version">>

Probed(c) == \E i \in 1..Len(calls) : calls[i].cmd = ProbeCmd(c)

ProbeOk(c) == \E i \in 1..Len(calls) :
                 calls[i].cmd = ProbeCmd(c) /\ calls[i].outcome = "ok"

\* The markers as the specification lists them.
MarkerPresent(c) ==
    CASE c = "uv" -> files.uv_lock \/ files.pyproject # "absent"
      [] c = "poetry" -> files.poetry_lock \/ files.pyproject = "poetry"
      [] c = "pipenv" -> files.Pipfile
      [] c = "pip" -> TRUE

\* Candidate number k was tried and found unavailable, or had no marker
\* and was not probed at all.
PassedOver(k) ==
    LET c == CandidateOrder[k]
    IN  IF MarkerPresent(c) THEN Probed(c) /\ ~ProbeOk(c) ELSE ~Probed(c)

\* C4: detect_dependency_manager returns the first candidate in the order
\* uv, poetry, pipenv, pip whose marker is present (pip needs none) and
\* whose version probe succeeds; with the uv marker present and uv viable
\* it returns uv whatever the poetry markers are; it returns pip when no
\* marker-based candidate's probe succeeds and the pip probe does.
C4_FirstViableCandidate ==
    (DetectCall /\ pc = "done") =>
        /\ (MarkerPresent("uv") /\ ProbeOk("uv"))
             => (term = "returned" /\ result["detect_dependency_manager"] = Some("uv"))
        /\ term = "returned" =>
             LET r == result["detect_dependency_manager"]
             IN  IF r = None
                 THEN \A k \in 1..4 : PassedOver(k)
                 ELSE \E k \in 1..4 :
                        /\ r = Some(CandidateOrder[k])
                        /\ MarkerPresent(CandidateOrder[k])
                        /\ ProbeOk(CandidateOrder[k])
                        /\ \A j \in 1..(k - 1) : PassedOver(j)
                        /\ \A j \in (k + 1)..4 : ~Probed(CandidateOrder[j])
        /\ term # "returned" => \A k \in 1..4 : PassedOver(k)

\* C5: detect_dependency_manager never raises: for every combination of
\* marker files and every outcome (success, non-zero exit, executable not
\* found) of each of the four probes it returns a manager name or None.
C5_DetectNeverRaises ==
    (DetectCall /\ pc = "done") =>
        /\ term = "returned"
        /\ result["detect_dependency_manager"]
             \in {None} \cup {Some(m) : m \in ManagerChoices}

----------------------------------------------------------------------------
(* Properties: install_packages and main *)

IsUvInit(c) == c.cmd = <<"uv", "init">>

IsUvAdd(c) == Len(c.cmd) >= 2 /\ c.cmd[1] = "uv" /\ c.cmd[2] = "add"

\* The install/add commands of the four managers.
IsInstallCmd(c) ==
    \/ (Len(c.cmd) >= 2 /\ c.cmd[1] \in {"uv", "poetry"} /\ c.cmd[2] = "add")
    \/ (Len(c.cmd) >= 2 /\ c.cmd[1] = "pipenv" /\ c.cmd[2] = "install")
    \/ (Len(c.cmd) >= 4 /\ SubSeq(c.cmd, 1, 4) = <<sys_executable, "-m", "pip", "install">>)

IsProbe(c) == c.cmd[Len(c.cmd)] = "--version"

CallIndices(P(_)) == {i \in 1..Len(calls) : P(calls[i])}

\* C6: with manager uv and no pyproject.toml, 'uv init' runs before
\* 'uv add'; if 'uv init' fails, 'uv add' is never run and the process
\* terminates with a non-zero exit status; when pyproject.toml is present,
\* 'uv init' is not run.
C6_UvInitBeforeAdd ==
    /\ \A i \in CallIndices(IsUvAdd) :
         files.pyproject = "absent"
           => \E j \in 1..(i - 1) : IsUvInit(calls[j]) /\ calls[j].outcome = "ok"
    /\ \A j \in CallIndices(IsUvInit) :
         calls[j].outcome # "ok"
           => /\ CallIndices(IsUvAdd) = {}
              /\ pc = "done"
              /\ term \in {"sys_exit", "raised"}
              /\ exit_code = 1
    /\ (~files.searchable \/ files.pyproject # "absent")
         => CallIndices(IsUvInit) = {}
    /\ (manager = Some("uv") /\ files.pyproject = "absent" /\ pc = "run_install")
         => CallIndices(IsUvInit) # {}

C6_Witness ==
    /\ manager = Some("uv")
    /\ files.pyproject = "absent"
    /\ \E j \in 1..Len(calls) : IsUvInit(calls[j]) /\ calls[j].outcome = "nonzero"
    /\ stderr = <<"Failed to initialize project">>
    /\ pc = "done"
    /\ exit_code = 1

C7_Override ==
    args.manager # None =>
        /\ "detect_dependency_manager" \notin called
        /\ "ask_user_for_manager" \notin called
        /\ CallIndices(IsProbe) = {}
        /\ \A i \in 1..Len(stdout) : stdout[i] \notin {"menu", "prompt"}
        /\ \A i \in 1..Len(stderr) : stderr[i] # "prompt"
        /\ stdin_read = <<>>
        /\ "install_packages" \in called => manager = args.manager

C7_Fallback ==
    args.manager = None =>
        /\ "ask_user_for_manager" \in called
             => /\ "detect_dependency_manager" \in DOMAIN result
                /\ result["detect_dependency_manager"] = None
        /\ "install_packages" \in called
             => manager \in {Some(m) : m \in ManagerChoices}

\* C7: with --manager supplied, main calls neither
\* detect_dependency_manager nor ask_user_for_manager (no probe, no prompt)
\* and install_packages receives exactly the supplied value; without it,
\* ask_user_for_manager is called only if detection returned None; the
\* manager, once determined, does not change and is determined before
\* install_packages runs.
C7_ManagerResolution ==
    /\ [](C7_Override /\ C7_Fallback)
    /\ [][(manager # None \/ "install_packages" \in called) => manager' = manager]_vars

C7_Witness ==
    /\ args.manager = Some("poetry")
    /\ files.uv_lock
    /\ pc = "run_install"
    /\ manager = Some("poetry")
    /\ calls = <<>>

\* C8: a run ends abnormally only through uv project-initialization
\* failure or a non-zero exit of the install command, each reported on the
\* error stream with a non-zero status; every other condition is absorbed;
\* the install command is invoked at most once; the exit status is 0
\* exactly when the install command succeeded.
C8_OnlyTwoFatalConditions ==
    /\ Cardinality(CallIndices(IsInstallCmd)) <= 1
    /\ (entry = "main" /\ pc = "done") =>
         /\ term # "returned"
              => /\ term = "sys_exit"
                 /\ exit_code # 0
                 /\ stderr # <<>>
                 /\ stderr[Len(stderr)] \in {"Failed to initialize project",
                                              "Failed to install packages"}
                 /\ calls # <<>>
                 /\ calls[Len(calls)].outcome = "nonzero"
                 /\ IsUvInit(calls[Len(calls)]) \/ IsInstallCmd(calls[Len(calls)])
         /\ (exit_code = 0)
              = (\E i \in CallIndices(IsInstallCmd) : calls[i].outcome = "ok")

\* C9: install_packages called with a manager outside {uv, pip, poetry,
\* pipenv} fails with ValueError before any subprocess is invoked.
C9_UnknownManager ==
    (entry = "install_packages" /\ manager \notin {Some(m) : m \in ManagerChoices})
    => /\ calls = <<>>
       /\ cmd = <<>>
       /\ pc \in {"install_packages", "done"}
       /\ pc = "done" => (term = "raised" /\ exc = "ValueError")

C9_Witness ==
    /\ entry = "install_packages"
    /\ manager = Some("conda")
    /\ pc = "done"
    /\ exc = "ValueError"
    /\ calls = <<>>

----------------------------------------------------------------------------
(* Properties: ask_user_for_manager *)

AskCall == entry = "ask_user_for_manager"

\* The manager a typed line selects according to the menu, None if the
\* line is not one of the four tokens (surrounding blanks ignored).
MenuChoice(line) ==
    LET t == strip(line)
    IN  CASE t = <<49>> -> Some("uv")
          [] t = <<50>> -> Some("pip")
          [] t = <<51>> -> Some("poetry")
          [] t = <<52>> -> Some("pipenv")
          [] OTHER -> None

Count(xs, x) == Cardinality({i \in 1..Len(xs) : xs[i] = x})

\* Every line read before the last one was rejected; each rejection was
\* printed; one prompt was shown per input() call.
AskLoopShape ==
    /\ \A i \in 1..(Len(stdin_read) - 1) : MenuChoice(stdin_read[i]) = None
    /\ Count(stdout, "invalid")
         = Cardinality({i \in 1..Len(stdin_read) : MenuChoice(stdin_read[i]) = None})
    /\ Count(stdout, "prompt") + Count(stderr, "prompt")
         = Len(stdin_read)
             + (IF term = "raised" /\ exc # "RuntimeError" THEN 1 ELSE 0)
    /\ pc = "ask_input"
         => \A i \in 1..Len(stdin_read) : MenuChoice(stdin_read[i]) = None

AskReturnsChoice ==
    term = "returned" =>
        /\ stdin_read # <<>>
        /\ MenuChoice(stdin_read[Len(stdin_read)])
             = Some(result["ask_user_for_manager"])
        /\ result["ask_user_for_manager"] \in ManagerChoices

\* C10: for every sequence of inputs, an input stream that ends included,
\* ask_user_for_manager never fails; each invalid input is rejected and
\* followed by another prompt, and it returns only on the first valid
\* token, mapped 1 to uv, 2 to pip, 3 to poetry, 4 to pipenv; if a valid
\* token arrives the call eventually returns.
C10_NeverFails ==
    /\ [](AskCall => (term # "raised" /\ AskLoopShape /\ AskReturnsChoice))
    /\ (AskCall /\ \E i \in 1..Len(stdin) : MenuChoice(stdin[i]) # None)
         ~> (term = "returned")

====
